---- MODULE Spec2Model ----
(***************************************************************************)
(* The scraper run of src/scraper/scraper.py (main, scraping_mobile_links, *)
(* scrape_page, scrape_mobile_inf, safe_clean, clean_html) over the record *)
(* store of src/scraper/dbmanage.py.  One process executes runs one after  *)
(* the other; the store (data/mobiles.db) and the failed-URL report        *)
(* (data/failed_urls.txt) outlive a run, everything else is local to it.   *)
(* A second scraper process working on the same store is seen through the  *)
(* only thing it does to the store: a committed save_to_db.                *)
(***************************************************************************)
EXTENDS Integers, Sequences, FiniteSets, TLC

\* ------------------------------------------------------------------ bounds
\* config.py sets 300 pages and 15 / 30 concurrent requests; the model keeps
\* the names and shrinks the values.
MAX_PAGES == 2
MAX_CONCURRENT_PAGE_REQUESTS == 1
MAX_CONCURRENT_DETAIL_REQUESTS == 1
\* The number of links the index pages of one run hold together.
MaxLinks == 2
\* config.py:30
MAX_RETRIES == 3

RETRY_WAIT_MIN == 60

RETRY_WAIT_MAX == 120

\* The absolute listing URLs the site can serve and the records a detail page
\* can be parsed into.
URLS == {"u1", "u2"}
PAYLOADS == {"d1", "d2"}
NoRow == "NoRow"
\* An optional value: None is the empty sequence, a present value x is <<x>>.
None == <<>>

Some(x) == <<x>>

\* A detail page with none of the elements clean_html looks for.
EmptySoup ==
    [title |-> None, amount |-> None, posted |-> None, post_ad |-> FALSE,
     features |-> None, description |-> None, imgs |-> <<>>]

\* The years datetime.now() is taken in: a common year and a leap year.
YEARS == {2026, 2028}

\* No report file: a sequence that is no list of URLs.
NoFile == <<"NoFile">>

Pages == 1..MAX_PAGES

VARIABLES
    store,        \* table mobiles: the set of its rows [URL, data]
    upserts,      \* history: URL -> the data of the first committed upsert, or NoRow
    report,       \* FAILED_URLS_FILE: NoFile, or the sequence of its lines
    pc,           \* where main is
    page,         \* the safe_scrape task of each page number
    page_sem,     \* value of the semaphore of scraping_mobile_links
    phone_urls,   \* main's phone_urls
    new_urls,     \* main's new_urls
    dtask,        \* the safe_clean task of each element of new_urls
    detail_sem,   \* value of the semaphore of scrape_mobile_inf
    failed_urls,  \* scrape_mobile_inf's failed_urls
    written,      \* what this run did to the report: "no", "written", "unwritable", "nodir"
    report_before, \* history: the report file as this run found it when it started
    main_end,     \* how main ended: the level of its last log line, and whether it raised
    hrefs,        \* scrape_page: the href of the first anchor of each list item
    new_links,    \* scrape_page: new_links
    soup,         \* clean_html: the parts of the parsed detail page the record is built from
    current_year, \* parse_date_time: datetime.now().year
    record,       \* clean_html: the dict data, once it is built
    db_call,      \* dbmanage.py: the operation that is running and where it is
    connections,  \* dbmanage.py: the sqlite3 connections that are open
    call,         \* clean_html: the innermost call of one detail task
    events        \* history: the fetches, their outcomes and the sleeps of that task

vars == <<store, upserts, report, pc, page, page_sem, phone_urls, new_urls, dtask,
          detail_sem, failed_urls, written, report_before, main_end, hrefs,
          new_links, soup, current_year, record, db_call, connections, call, events>>

pure == <<hrefs, new_links, soup, current_year, record, db_call, connections, call,
          events>>

persistent == <<store, upserts, report>>

\* ------------------------------------------------------------------ helpers
RECURSIVE SeqsUpTo(_, _)
SeqsUpTo(S, n) ==
    IF n = 0 THEN {<<>>}
    ELSE LET shorter == SeqsUpTo(S, n - 1)
         IN shorter \cup {Append(s, x) : s \in {t \in shorter : Len(t) = n - 1}, x \in S}

Range(s) == {s[i] : i \in DOMAIN s}

\* ------------------------------------------------------------------ dbmanage.py
\* Variant: INSERT OR REPLACE, the last write wins.
save_to_db_Replace(st, data) ==
    {row \in st : row.URL # data.URL} \cup {data}

\* INSERT OR IGNORE INTO mobiles ... with URL TEXT PRIMARY KEY: the row is
\* inserted unless a row with its URL is there.
save_to_db(st, data) ==
    IF \E row \in st : row.URL = data.URL THEN st ELSE st \cup {data}

\* Variant: the URLs read before the other run committed (nothing).
get_existing_urls_Stale(st) == {}

\* SELECT URL FROM mobiles
get_existing_urls(st) == {row.URL : row \in st}

\* Variant: the difference taken on sets, list(dict.fromkeys(all_urls)) filtered:
\* a URL the input holds twice is returned once.
filter_new_urls_AsSet(all_urls, st) ==
    LET existing_urls == {row.URL : row \in st}
        FirstNew(k) == /\ all_urls[k] \notin existing_urls
                       /\ \A j \in 1..(k - 1) : all_urls[j] # all_urls[k]
        RECURSIVE Build(_)
        Build(k) == IF k = 0 THEN <<>>
                    ELSE IF FirstNew(k) THEN Append(Build(k - 1), all_urls[k])
                    ELSE Build(k - 1)
    IN Build(Len(all_urls))

filter_new_urls(all_urls, st) ==
    LET existing_urls == get_existing_urls(st)
        IsNew(u) == u \notin existing_urls
    IN SelectSeq(all_urls, IsNew)

\* async with semaphore: a task enters while the semaphore's value is positive.
SemaphoreFree(value) == value > 0

\* ------------------------------------------------------------------ run-local state
IdlePage == [st |-> "waiting", outcome |-> "none", result |-> <<>>, fetches |-> 0]

NewTask(link) ==
    [url |-> link, st |-> "waiting", retry_count |-> 0, attempts |-> 0, fails |-> 0,
     last |-> "none", data |-> NoRow, result |-> "pending", appended |-> 0,
     saved |-> 0]

\* No operation of dbmanage.py is running.
NoCall == [op |-> "none", at |-> "none", data |-> <<>>, urls |-> <<>>]

\* clean_html is not running.
NotCalled == [st |-> "idle", retry_count |-> 0, wait |-> 0, result |-> "pending"]

\* No record is being built, no connection is open and no call is followed.
NothingParsed ==
    /\ soup = EmptySoup
    /\ current_year = 2026
    /\ record = None
    /\ db_call = NoCall
    /\ connections = 0
    /\ call = NotCalled
    /\ events = <<>>

\* main has not ended.
NoEnd == [log |-> "none", raised |-> FALSE]

\* main: logger.info("Mobile Scraper Completed Successfully") and main returns.
Completed == [log |-> "info", raised |-> FALSE]

\* main: except Exception: logger.critical(...); raise
Fatal == [log |-> "critical", raised |-> TRUE]

\* main: except KeyboardInterrupt: logger.warning("Scraper interrupted by user")
Interrupted == [log |-> "warning", raised |-> FALSE]

RunLocalInit ==
    /\ pc = "Init"
    /\ main_end = NoEnd
    /\ page = [p \in Pages |-> IdlePage]
    /\ page_sem = MAX_CONCURRENT_PAGE_REQUESTS
    /\ phone_urls = <<>>
    /\ new_urls = <<>>
    /\ dtask = <<>>
    /\ detail_sem = MAX_CONCURRENT_DETAIL_REQUESTS
    /\ failed_urls = <<>>
    /\ written = "no"

Init ==
    /\ store = {}
    /\ upserts = [u \in URLS |-> NoRow]
    /\ report = NoFile
    /\ report_before = NoFile
    /\ hrefs = <<>>
    /\ new_links = <<>>
    /\ NothingParsed
    /\ RunLocalInit

\* ------------------------------------------------------------------ main
\* main: init_db() returned.
init_db_returns ==
    /\ pc = "Init"
    /\ pc' = "CollectingLinks"
    /\ UNCHANGED <<pure, report_before, main_end, store, upserts, report, page, page_sem,
                   phone_urls, new_urls, dtask,
                   detail_sem, failed_urls, written>>

init_db_raises_GoesOn ==
    /\ pc = "Init"
    /\ pc' = "CollectingLinks"
    /\ main_end' = Fatal
    /\ UNCHANGED <<pure, report_before, store, upserts, report, page, page_sem, phone_urls,
                   new_urls, dtask, detail_sem, failed_urls, written>>

\* main: init_db() raised (sqlite3.connect or the CREATE TABLE failed); main logs
\* it as critical and re-raises.
init_db_raises ==
    /\ pc = "Init"
    /\ pc' = "Failed"
    /\ main_end' = Fatal
    /\ UNCHANGED <<pure, report_before, store, upserts, report, page, page_sem, phone_urls,
                   new_urls, dtask,
                   detail_sem, failed_urls, written>>

\* ------------------------------------------------------------------ scraping_mobile_links
\* safe_scrape(p): the semaphore is acquired and session.get is issued.  gather
\* starts the tasks in page order and asyncio.Semaphore wakes its waiters first
\* in, first out.
safe_scrape_acquire(p) ==
    /\ pc = "CollectingLinks"
    /\ page[p].st = "waiting"
    /\ \A q \in 1..(p - 1) : page[q].st # "waiting"
    /\ SemaphoreFree(page_sem)
    /\ page_sem' = page_sem - 1
    /\ page' = [page EXCEPT ![p].st = "fetching", ![p].fetches = @ + 1]
    /\ UNCHANGED <<pure, report_before, main_end, store, upserts, report, pc, phone_urls,
                   new_urls, dtask, detail_sem,
                   failed_urls, written>>

\* scrape_page returns new_links (or [] on a non-200 status, a timeout or an
\* exception) and safe_scrape leaves the semaphore.
scrape_page_returns(p, how, links) ==
    /\ pc = "CollectingLinks"
    /\ page[p].st = "fetching"
    /\ page_sem' = page_sem + 1
    /\ page' = [page EXCEPT ![p].st = "done", ![p].outcome = how, ![p].result = links]
    /\ UNCHANGED <<pure, report_before, main_end, store, upserts, report, pc, phone_urls,
                   new_urls, dtask, detail_sem,
                   failed_urls, written>>

LinksSoFar == LET RECURSIVE Sum(_)
                  Sum(n) == IF n = 0 THEN 0 ELSE Len(page[n].result) + Sum(n - 1)
              IN Sum(MAX_PAGES)

scrape_page_200(p) ==
    \E links \in SeqsUpTo(URLS, MaxLinks) :
        /\ LinksSoFar + Len(links) <= MaxLinks
        /\ scrape_page_returns(p, "200", links)

scrape_page_non200(p) == scrape_page_returns(p, "non200", <<>>)

scrape_page_timeout(p) == scrape_page_returns(p, "timeout", <<>>)

scrape_page_exception_Aborts(p) ==
    /\ pc = "CollectingLinks"
    /\ page[p].st = "fetching"
    /\ page_sem' = page_sem + 1
    /\ page' = [page EXCEPT ![p].st = "done", ![p].outcome = "exception"]
    /\ pc' = "Failed"
    /\ main_end' = Fatal
    /\ UNCHANGED <<pure, report_before, store, upserts, report, phone_urls, new_urls, dtask,
                   detail_sem, failed_urls, written>>

\* scrape_page: except Exception: logger.error(...); return []
scrape_page_exception(p) == scrape_page_returns(p, "exception", <<>>)

\* for result in results: all_links.extend(result), in page order.
RECURSIVE ExtendAll(_, _)
ExtendAll(results, n) ==
    IF n = 0 THEN <<>> ELSE ExtendAll(results, n - 1) \o results[n].result

\* Variant: the collector goes on as soon as one page task is done.
PagesGathered_Any == \E p \in Pages : page[p].st = "done"

PagesGathered == \A p \in Pages : page[p].st = "done"

\* asyncio.gather(*tasks) returns; scraping_mobile_links returns all_links and
\* its tasks and their results go out of scope.
scraping_mobile_links_returns ==
    /\ pc = "CollectingLinks"
    /\ PagesGathered
    /\ phone_urls' = ExtendAll(page, MAX_PAGES)
    /\ pc' = "FilteringKnown"
    /\ page' = [p \in Pages |-> IdlePage]
    /\ UNCHANGED <<pure, report_before, main_end, store, upserts, report, page_sem, new_urls,
                   dtask, detail_sem,
                   failed_urls, written>>

\* Variant: scrape_mobile_inf is called without the test of new_urls.
NextAfterFilter_Always(urls) == "FetchingDetails"

\* main: new_urls = filter_new_urls(phone_urls); if new_urls: ... else: ...
NextAfterFilter(urls) == IF urls # <<>> THEN "FetchingDetails" ELSE "Done"

main_filter_new_urls ==
    /\ pc = "FilteringKnown"
    /\ new_urls' = filter_new_urls(phone_urls, store)
    /\ pc' = NextAfterFilter(new_urls')
    /\ dtask' = [i \in 1..Len(new_urls') |-> NewTask(new_urls'[i])]
    /\ main_end' = IF pc' = "Done" THEN Completed ELSE main_end
    /\ UNCHANGED <<pure, report_before, store, upserts, report, page, page_sem, phone_urls,
                   detail_sem,
                   failed_urls, written>>

\* ------------------------------------------------------------------ scrape_mobile_inf
\* safe_clean(link): the semaphore is acquired and clean_html(session, link)
\* issues session.get.  gather starts the tasks in the order of urls and
\* asyncio.Semaphore wakes its waiters first in, first out.
safe_clean_acquire(i) ==
    /\ pc = "FetchingDetails"
    /\ dtask[i].st = "waiting"
    /\ \A j \in 1..(i - 1) : dtask[j].st # "waiting"
    /\ SemaphoreFree(detail_sem)
    /\ detail_sem' = detail_sem - 1
    /\ dtask' = [dtask EXCEPT ![i].st = "fetching", ![i].attempts = @ + 1]
    /\ UNCHANGED <<pure, report_before, main_end, store, upserts, report, pc, page, page_sem,
                   phone_urls, new_urls,
                   failed_urls, written>>

\* Variant: the failure replaces what the other tasks appended.
safe_clean_failed_Overwrites(failed, link, result) ==
    IF result = "None" THEN <<link>> ELSE failed

\* Variant: the link is appended whatever clean_html returned.
safe_clean_failed_Always(failed, link, result) == Append(failed, link)

\* safe_clean: if result is None: failed_urls.append(link)
safe_clean_failed(failed, link, result) ==
    IF result = "None" THEN Append(failed, link) ELSE failed

\* The first committed upsert of each URL.
Upserted(ups, data) ==
    IF ups[data.URL] = NoRow THEN [ups EXCEPT ![data.URL] = data.Data] ELSE ups

safe_clean_returns_KeepsSlot(i, how, result) ==
    /\ pc = "FetchingDetails"
    /\ dtask[i].st = "fetching"
    /\ failed_urls' = safe_clean_failed(failed_urls, dtask[i].url, result)
    /\ dtask' = [dtask EXCEPT ![i].st = "done", ![i].last = how, ![i].result = result,
                              ![i].fails = @ + (IF how = "fetch_failed" THEN 1 ELSE 0),
                              ![i].appended = @ + (Len(failed_urls') - Len(failed_urls))]
    /\ UNCHANGED <<pure, report_before, main_end, store, upserts, report, pc, page, page_sem,
                   phone_urls, new_urls, detail_sem, written>>

\* clean_html returned result to safe_clean, which appends the link when the
\* result is None and leaves the semaphore.
safe_clean_returns(i, how, result) ==
    /\ pc = "FetchingDetails"
    /\ dtask[i].st = "fetching"
    /\ failed_urls' = safe_clean_failed(failed_urls, dtask[i].url, result)
    /\ dtask' = [dtask EXCEPT ![i].st = "done", ![i].last = how, ![i].result = result,
                              ![i].fails = @ + (IF how = "fetch_failed" THEN 1 ELSE 0),
                              ![i].appended = @ + (Len(failed_urls') - Len(failed_urls))]
    /\ detail_sem' = detail_sem + 1
    /\ UNCHANGED <<pure, report_before, main_end, store, upserts, report, pc, page, page_sem,
                   phone_urls, new_urls,
                   written>>

\* Variant: the body of a non-200 response is parsed and saved all the same.
clean_html_non200_Saves(i) ==
    \E d \in PAYLOADS :
        LET data == [URL |-> dtask[i].url, Data |-> d] IN
        /\ pc = "FetchingDetails"
        /\ dtask[i].st = "fetching"
        /\ store' = save_to_db(store, data)
        /\ upserts' = Upserted(upserts, data)
        /\ failed_urls' = safe_clean_failed(failed_urls, dtask[i].url, "None")
        /\ dtask' = [dtask EXCEPT ![i].st = "done", ![i].last = "non200",
                                  ![i].result = "None", ![i].data = d,
                                  ![i].appended = @ + (Len(failed_urls') - Len(failed_urls)),
                                  ![i].saved = @ + Cardinality(store' \ store)]
        /\ detail_sem' = detail_sem + 1
        /\ UNCHANGED <<pure, report_before, main_end, report, pc, page, page_sem, phone_urls,
                       new_urls, written>>

clean_html_non200_Retries(i) ==
    IF dtask[i].retry_count < MAX_RETRIES
    THEN /\ pc = "FetchingDetails"
         /\ dtask[i].st = "fetching"
         /\ dtask' = [dtask EXCEPT ![i].st = "sleeping", ![i].last = "non200"]
         /\ UNCHANGED <<pure, report_before, main_end, store, upserts, report, pc, page,
                        page_sem, phone_urls, new_urls, detail_sem, failed_urls, written>>
    ELSE safe_clean_returns(i, "non200", "None")

\* clean_html: response.status != 200: return None
clean_html_non200(i) == safe_clean_returns(i, "non200", "None")

\* clean_html: status 200, the body is read and parsed into data, save_to_db(data)
\* commits: return True
clean_html_saves(i) ==
    \E d \in PAYLOADS :
        LET data == [URL |-> dtask[i].url, Data |-> d] IN
        /\ pc = "FetchingDetails"
        /\ dtask[i].st = "fetching"
        /\ store' = save_to_db(store, data)
        /\ upserts' = Upserted(upserts, data)
        /\ failed_urls' = safe_clean_failed(failed_urls, dtask[i].url, "True")
        /\ dtask' = [dtask EXCEPT ![i].st = "done", ![i].last = "200",
                                  ![i].result = "True", ![i].data = d,
                                  ![i].appended = @ + (Len(failed_urls') - Len(failed_urls)),
                                  ![i].saved = @ + Cardinality(store' \ store)]
        /\ detail_sem' = detail_sem + 1
        /\ UNCHANGED <<pure, report_before, main_end, report, pc, page, page_sem, phone_urls,
                       new_urls, written>>

clean_html_save_raises_Aborts(i) ==
    /\ pc = "FetchingDetails"
    /\ dtask[i].st = "fetching"
    /\ dtask' = [dtask EXCEPT ![i].st = "done", ![i].last = "save_raised",
                              ![i].result = "None"]
    /\ pc' = "Failed"
    /\ main_end' = Fatal
    /\ UNCHANGED <<pure, report_before, store, upserts, report, page, page_sem, phone_urls,
                   new_urls, detail_sem, failed_urls, written>>

\* clean_html: status 200, save_to_db(data) raises: return None
clean_html_save_raises(i) == safe_clean_returns(i, "save_raised", "None")

\* Variant: retry_count <= MAX_RETRIES, one retry more.
ShouldRetry_OffByOne(retry_count) == retry_count <= MAX_RETRIES

\* clean_html: if retry_count < MAX_RETRIES
ShouldRetry(retry_count) == retry_count < MAX_RETRIES

\* clean_html: asyncio.TimeoutError or another exception of the fetch: sleep and
\* retry, or return None once the retries are used up.
clean_html_fetch_fails(i, how) ==
    /\ pc = "FetchingDetails"
    /\ dtask[i].st = "fetching"
    /\ IF ShouldRetry(dtask[i].retry_count)
       THEN /\ dtask' = [dtask EXCEPT ![i].st = "sleeping", ![i].last = how,
                                      ![i].fails = @ + 1]
            /\ UNCHANGED <<pure, report_before, main_end, store, upserts, report, pc, page,
                           page_sem, phone_urls, new_urls,
                           detail_sem, failed_urls, written>>
       ELSE safe_clean_returns(i, how, "None")

\* except asyncio.TimeoutError: and except Exception as e: have the same body.
clean_html_timeout(i) == clean_html_fetch_fails(i, "fetch_failed")

clean_html_exception(i) == clean_html_fetch_fails(i, "fetch_failed")

\* Variant: the retry goes through safe_clean again and takes a second slot.
clean_html_retry_Reacquires(i) ==
    /\ pc = "FetchingDetails"
    /\ dtask[i].st = "sleeping"
    /\ detail_sem' = detail_sem - 1
    /\ dtask' = [dtask EXCEPT ![i].st = "fetching", ![i].retry_count = @ + 1,
                              ![i].attempts = @ + 1]
    /\ UNCHANGED <<pure, report_before, main_end, store, upserts, report, pc, page, page_sem,
                   phone_urls, new_urls,
                   failed_urls, written>>

\* clean_html: asyncio.sleep(wait_time) is over:
\* return await clean_html(session, url, retry_count + 1)
clean_html_retry(i) ==
    /\ pc = "FetchingDetails"
    /\ dtask[i].st = "sleeping"
    /\ dtask' = [dtask EXCEPT ![i].st = "fetching", ![i].retry_count = @ + 1,
                              ![i].attempts = @ + 1]
    /\ UNCHANGED <<pure, report_before, main_end, store, upserts, report, pc, page, page_sem,
                   phone_urls, new_urls,
                   detail_sem, failed_urls, written>>

DetailsGathered == \A i \in DOMAIN dtask : dtask[i].st = "done"

\* scrape_mobile_inf: asyncio.gather(*tasks) returns.
scrape_mobile_inf_gathered ==
    /\ pc = "FetchingDetails"
    /\ DetailsGathered
    /\ pc' = "Reporting"
    /\ UNCHANGED <<pure, report_before, main_end, store, upserts, report, page, page_sem,
                   phone_urls, new_urls, dtask,
                   detail_sem, failed_urls, written>>

ReportAfter_Appends(file, failed) ==
    IF failed # <<>> THEN (IF file = NoFile THEN failed ELSE file \o failed) ELSE file

\* scrape_mobile_inf: if failed_urls: open(FAILED_URLS_FILE, "w") and write
\* "\n".join(failed_urls); else: only a log line.
ReportAfter(file, failed) == IF failed # <<>> THEN failed ELSE file

\* scrape_mobile_inf returns and its tasks go out of scope.
scrape_mobile_inf_reports ==
    /\ pc = "Reporting"
    /\ report' = ReportAfter(report, failed_urls)
    /\ written' = IF failed_urls # <<>> THEN "written" ELSE "no"
    /\ pc' = "Done"
    /\ dtask' = <<>>
    /\ main_end' = Completed
    /\ UNCHANGED <<pure, report_before, store, upserts, page, page_sem, phone_urls, new_urls,
                   detail_sem,
                   failed_urls>>

\* scrape_mobile_inf: os.makedirs(DATA_DIR, exist_ok=True) raises; the call is
\* outside the try block, so the exception leaves scrape_mobile_inf and reaches
\* main's except Exception.
scrape_mobile_inf_makedirs_raises ==
    /\ pc = "Reporting"
    /\ failed_urls # <<>>
    /\ written' = "nodir"
    /\ pc' = "Failed"
    /\ main_end' = Fatal
    /\ dtask' = <<>>
    /\ UNCHANGED <<pure, report_before, store, upserts, report, page, page_sem, phone_urls,
                   new_urls, detail_sem, failed_urls>>

scrape_mobile_inf_report_unwritable_Propagates ==
    /\ pc = "Reporting"
    /\ failed_urls # <<>>
    /\ written' = "unwritable"
    /\ pc' = "Failed"
    /\ main_end' = Fatal
    /\ dtask' = <<>>
    /\ UNCHANGED <<pure, report_before, store, upserts, report, page, page_sem, phone_urls,
                   new_urls, detail_sem, failed_urls>>

\* scrape_mobile_inf: open(FAILED_URLS_FILE, "w") raises; the exception is caught
\* and logged as an error, the file stays as it was.
scrape_mobile_inf_report_unwritable ==
    /\ pc = "Reporting"
    /\ failed_urls # <<>>
    /\ written' = "unwritable"
    /\ pc' = "Done"
    /\ dtask' = <<>>
    /\ main_end' = Completed
    /\ UNCHANGED <<pure, report_before, store, upserts, report, page, page_sem, phone_urls,
                   new_urls,
                   detail_sem, failed_urls>>

\* ------------------------------------------------------------------ runs
\* The program is started again (run_pipeline.py: run_script("scraper.py")):
\* the store and the report are what the earlier runs left.
StartRun ==
    /\ pc \in {"Done", "Failed", "Interrupted"}
    /\ pc' = "Init"
    /\ main_end' = NoEnd
    /\ report_before' = report
    /\ page' = [p \in Pages |-> IdlePage]
    /\ page_sem' = MAX_CONCURRENT_PAGE_REQUESTS
    /\ phone_urls' = <<>>
    /\ new_urls' = <<>>
    /\ dtask' = <<>>
    /\ detail_sem' = MAX_CONCURRENT_DETAIL_REQUESTS
    /\ failed_urls' = <<>>
    /\ written' = "no"
    /\ UNCHANGED <<persistent, pure>>

\* Variant: the interrupt is handled like any other exception, logged as
\* critical and re-raised.
main_interrupted_Reraises ==
    /\ pc \in {"Init", "CollectingLinks", "FilteringKnown", "FetchingDetails", "Reporting"}
    /\ pc' = "Interrupted"
    /\ main_end' = Fatal
    /\ page' = [p \in Pages |-> IdlePage]
    /\ page_sem' = MAX_CONCURRENT_PAGE_REQUESTS
    /\ dtask' = <<>>
    /\ detail_sem' = MAX_CONCURRENT_DETAIL_REQUESTS
    /\ failed_urls' = <<>>
    /\ UNCHANGED <<persistent, pure, report_before, phone_urls, new_urls, written>>

\* KeyboardInterrupt while main is in its try block: the tasks of the running
\* event loop are cancelled and go out of scope, main logs a warning and
\* returns.  What is committed to the store stays.
main_interrupted ==
    /\ pc \in {"Init", "CollectingLinks", "FilteringKnown", "FetchingDetails", "Reporting"}
    /\ pc' = "Interrupted"
    /\ main_end' = Interrupted
    /\ page' = [p \in Pages |-> IdlePage]
    /\ page_sem' = MAX_CONCURRENT_PAGE_REQUESTS
    /\ dtask' = <<>>
    /\ detail_sem' = MAX_CONCURRENT_DETAIL_REQUESTS
    /\ failed_urls' = <<>>
    /\ UNCHANGED <<persistent, pure, report_before, phone_urls, new_urls, written>>

\* Another scraper process on the same data/mobiles.db commits save_to_db(data).
other_run_save_to_db ==
    \E u \in URLS, d \in PAYLOADS :
        /\ store' = save_to_db(store, [URL |-> u, Data |-> d])
        /\ upserts' = Upserted(upserts, [URL |-> u, Data |-> d])
        /\ UNCHANGED <<pure, report_before, main_end, report, pc, page, page_sem, phone_urls,
                       new_urls, dtask,
                       detail_sem, failed_urls, written>>

Next ==
    \/ init_db_returns
    \/ init_db_raises
    \/ \E p \in Pages : safe_scrape_acquire(p)
    \/ \E p \in Pages : scrape_page_200(p)
    \/ \E p \in Pages : scrape_page_non200(p)
    \/ \E p \in Pages : scrape_page_timeout(p)
    \/ \E p \in Pages : scrape_page_exception(p)
    \/ scraping_mobile_links_returns
    \/ main_filter_new_urls
    \/ \E i \in DOMAIN dtask : safe_clean_acquire(i)
    \/ \E i \in DOMAIN dtask : clean_html_non200(i)
    \/ \E i \in DOMAIN dtask : clean_html_saves(i)
    \/ \E i \in DOMAIN dtask : clean_html_save_raises(i)
    \/ \E i \in DOMAIN dtask : clean_html_timeout(i)
    \/ \E i \in DOMAIN dtask : clean_html_exception(i)
    \/ \E i \in DOMAIN dtask : clean_html_retry(i)
    \/ scrape_mobile_inf_gathered
    \/ scrape_mobile_inf_reports
    \/ scrape_mobile_inf_report_unwritable
    \/ scrape_mobile_inf_makedirs_raises
    \/ main_interrupted
    \/ other_run_save_to_db

\* One run, with another scraper process writing to the same store.
Spec == Init /\ [][Next]_vars

RunNext ==
    \/ init_db_returns
    \/ init_db_raises
    \/ \E p \in Pages : safe_scrape_acquire(p)
    \/ \E p \in Pages : scrape_page_200(p)
    \/ \E p \in Pages : scrape_page_non200(p)
    \/ \E p \in Pages : scrape_page_timeout(p)
    \/ \E p \in Pages : scrape_page_exception(p)
    \/ scraping_mobile_links_returns
    \/ main_filter_new_urls
    \/ \E i \in DOMAIN dtask : safe_clean_acquire(i)
    \/ \E i \in DOMAIN dtask : clean_html_non200(i)
    \/ \E i \in DOMAIN dtask : clean_html_saves(i)
    \/ \E i \in DOMAIN dtask : clean_html_save_raises(i)
    \/ \E i \in DOMAIN dtask : clean_html_timeout(i)
    \/ \E i \in DOMAIN dtask : clean_html_exception(i)
    \/ \E i \in DOMAIN dtask : clean_html_retry(i)
    \/ scrape_mobile_inf_gathered
    \/ scrape_mobile_inf_reports
    \/ scrape_mobile_inf_report_unwritable
    \/ scrape_mobile_inf_makedirs_raises
    \/ main_interrupted
    \/ StartRun

\* ------------------------------------------------------------------ scrape_page: the links of one page
\* A URL or href is the sequence of its parts, so that its beginning can be
\* looked at.
BASE_URL == <<"https:", "/", "/", "bikroy.com">>

\* The hrefs a list item's first anchor can carry: two paths from the root, an
\* absolute URL, and a path relative to the page.
HREFS ==
    { <<"/", "ad", "/", "a">>,
      <<"/", "ad", "/", "b">>,
      <<"https:", "/", "/", "bikroy.com", "/", "ad", "/", "c">>,
      <<"ad", "/", "d">> }

MaxItems == 3

\* href.startswith("/")
StartsWithSlash(href) == Len(href) > 0 /\ href[1] = "/"

\* full_link = BASE_URL + href if href.startswith("/") else href
full_link(href) == IF StartsWithSlash(href) THEN BASE_URL \o href ELSE href

\* An absolute URL begins with its scheme and "//".
IsAbsolute(url) ==
    /\ Len(url) > 3
    /\ url[1] \in {"http:", "https:"}
    /\ url[2] = "/"
    /\ url[3] = "/"

\* The list of one fetched page: the first anchor of each li of the ul.
InitLinks ==
    /\ store = {}
    /\ upserts = [u \in URLS |-> NoRow]
    /\ report = NoFile
    /\ report_before = NoFile
    /\ hrefs \in SeqsUpTo(HREFS, MaxItems)
    /\ new_links = <<>>
    /\ NothingParsed
    /\ RunLocalInit

\* scrape_page: for item in ul.find_all("li"): new_links.append(full_link)
scrape_page_item ==
    /\ Len(new_links) < Len(hrefs)
    /\ new_links' = Append(new_links, full_link(hrefs[Len(new_links) + 1]))
    /\ UNCHANGED <<hrefs, soup, current_year, record, report_before, main_end, store,
                   upserts, report, pc, page, page_sem, phone_urls, new_urls, dtask,
                   detail_sem, failed_urls, written, db_call, connections, call, events>>

NextLinks == scrape_page_item

SpecLinks == InitLinks /\ [][NextLinks]_vars

\* ------------------------------------------------------------------ text
\* A text is the sequence of its parts: one part for each digit, blank and
\* punctuation mark, and one for each word the code looks for as a whole.
BANGLA_DIGITS == <<"০", "১", "২", "৩", "৪", "৫", "৬", "৭", "৮", "৯">>

ASCII_DIGITS == <<"0", "1", "2", "3", "4", "5", "6", "7", "8", "9">>

IndexIn(seq, x) == CHOOSE k \in DOMAIN seq : seq[k] = x

\* BANGLA_TO_ENGLISH = str.maketrans("০১২৩৪৫৬৭৮৯", "0123456789")
BANGLA_TO_ENGLISH(part) ==
    IF part \in Range(BANGLA_DIGITS) THEN ASCII_DIGITS[IndexIn(BANGLA_DIGITS, part)]
    ELSE part

\* str.translate(BANGLA_TO_ENGLISH)
translate(text) == [k \in DOMAIN text |-> BANGLA_TO_ENGLISH(text[k])]

\* text[i:].startswith(old)
StartsWithAt(text, i, old) ==
    /\ i + Len(old) - 1 <= Len(text)
    /\ SubSeq(text, i, i + Len(old) - 1) = old

\* str.replace(old, new): every occurrence, left to right, without overlap.
RECURSIVE ReplaceFrom(_, _, _, _)
ReplaceFrom(text, i, old, new) ==
    IF i > Len(text) THEN <<>>
    ELSE IF StartsWithAt(text, i, old)
         THEN new \o ReplaceFrom(text, i + Len(old), old, new)
         ELSE <<text[i]>> \o ReplaceFrom(text, i + 1, old, new)

replace(text, old, new) == ReplaceFrom(text, 1, old, new)

\* The number of parts from position i on that are in the set.
RECURSIVE RunLen(_, _, _)
RunLen(text, i, set) ==
    IF i <= Len(text) /\ text[i] \in set THEN 1 + RunLen(text, i + 1, set) ELSE 0

\* The number written by the ASCII digits text[i .. i + n - 1].
RECURSIVE NumAt(_, _, _)
NumAt(text, i, n) ==
    IF n = 0 THEN 0
    ELSE 10 * NumAt(text, i, n - 1) + (IndexIn(ASCII_DIGITS, text[i + n - 1]) - 1)

\* "%02d" % n and "%04d" % n
Pad2(n) == <<ASCII_DIGITS[(n \div 10) + 1], ASCII_DIGITS[(n % 10) + 1]>>

Pad4(n) == Pad2(n \div 100) \o Pad2(n % 100)

\* ------------------------------------------------------------------ parse_date_time
\* MONTH_MAP, in the order of the dict.  The key of September ends with a blank.
MONTH_MAP ==
    << [bn |-> <<"জানু">>, en |-> <<"Jan">>],
       [bn |-> <<"ফেব">>, en |-> <<"Feb">>],
       [bn |-> <<"মার্চ">>, en |-> <<"Mar">>],
       [bn |-> <<"এপ্রি">>, en |-> <<"Apr">>],
       [bn |-> <<"মে">>, en |-> <<"May">>],
       [bn |-> <<"জুন">>, en |-> <<"Jun">>],
       [bn |-> <<"জুলা">>, en |-> <<"Jul">>],
       [bn |-> <<"আগ">>, en |-> <<"Aug">>],
       [bn |-> <<"সেপ্ট", " ">>, en |-> <<"Sep">>],
       [bn |-> <<"অক্টো">>, en |-> <<"Oct">>],
       [bn |-> <<"নভে">>, en |-> <<"Nov">>],
       [bn |-> <<"ডিসে">>, en |-> <<"Dec">>] >>

\* for bn, en in MONTH_MAP.items(): eng_dt = eng_dt.replace(bn, en)
RECURSIVE ReplaceMonths(_, _)
ReplaceMonths(text, n) ==
    IF n = 0 THEN text
    ELSE replace(ReplaceMonths(text, n - 1), MONTH_MAP[n].bn, MONTH_MAP[n].en)

\* %b in the C locale
MONTHS_EN ==
    <<"Jan", "Feb", "Mar", "Apr", "May", "Jun", "Jul", "Aug", "Sep", "Oct", "Nov", "Dec">>

IsLeap(y) == (y % 4 = 0 /\ y % 100 # 0) \/ y % 400 = 0

DaysIn(m, y) ==
    IF m = 2 THEN (IF IsLeap(y) THEN 29 ELSE 28)
    ELSE IF m \in {4, 6, 9, 11} THEN 30 ELSE 31

\* datetime.strptime(text, "%d %b %I:%M %p %Y"): a blank of the format stands
\* for one or more blanks of the text, a number field takes one or two digits
\* (%Y four), and the day has to exist in the month.  None stands for the
\* ValueError.
strptime(text) ==
    LET Digits == Range(ASCII_DIGITS)
        Blank == {" "}
        dl == RunLen(text, 1, Digits)
        p1 == 1 + dl
        s1 == RunLen(text, p1, Blank)
        p2 == p1 + s1
        p3 == p2 + 1
        s2 == RunLen(text, p3, Blank)
        p4 == p3 + s2
        hl == RunLen(text, p4, Digits)
        p5 == p4 + hl
        p6 == p5 + 1
        ml == RunLen(text, p6, Digits)
        p7 == p6 + ml
        s3 == RunLen(text, p7, Blank)
        p8 == p7 + s3
        p9 == p8 + 1
        s4 == RunLen(text, p9, Blank)
        p10 == p9 + s4
        yl == RunLen(text, p10, Digits)
        day == NumAt(text, 1, dl)
        hour == NumAt(text, p4, hl)
        minute == NumAt(text, p6, ml)
        year == NumAt(text, p10, yl)
        month == IndexIn(MONTHS_EN, text[p2])
        matches ==
            /\ dl \in {1, 2} /\ day \in 1..31
            /\ s1 >= 1
            /\ p2 <= Len(text) /\ text[p2] \in Range(MONTHS_EN)
            /\ s2 >= 1
            /\ hl \in {1, 2} /\ hour \in 1..12
            /\ p5 <= Len(text) /\ text[p5] = ":"
            /\ ml \in {1, 2} /\ minute \in 0..59
            /\ s3 >= 1
            /\ p8 <= Len(text) /\ text[p8] \in {"AM", "PM"}
            /\ s4 >= 1
            /\ yl = 4
            /\ p10 + yl - 1 = Len(text)
            /\ day <= DaysIn(month, year)
    IN  IF matches
        THEN Some([year |-> year, month |-> month, day |-> day,
                   hour |-> (hour % 12) + (IF text[p8] = "PM" THEN 12 ELSE 0),
                   minute |-> minute])
        ELSE None

\* date_obj.strftime("%Y-%m-%d")
date_str(date_obj) ==
    Pad4(date_obj.year) \o <<"-">> \o Pad2(date_obj.month) \o <<"-">> \o Pad2(date_obj.day)

\* date_obj.strftime("%H:%M")
time_str(date_obj) == Pad2(date_obj.hour) \o <<":">> \o Pad2(date_obj.minute)

\* parse_date_time(soup, url): posted is match.group(1).strip(), or None when
\* the page has no div or the pattern does not match; post_ad is
\* "post-ad?" in url.
parse_date_time(posted, post_ad, year) ==
    IF posted = None \/ post_ad
    THEN [published_time |-> None, published_date |-> None]
    ELSE LET bangla_dt == posted[1]
             eng_dt == replace(replace(ReplaceMonths(translate(bangla_dt), Len(MONTH_MAP)),
                                       <<"এএম">>, <<"AM">>),
                               <<"পিএম">>, <<"PM">>)
             date_obj == strptime(eng_dt \o <<" ">> \o Pad4(year))
         IN  IF date_obj = None
             THEN [published_time |-> None, published_date |-> None]
             ELSE [published_time |-> Some(time_str(date_obj[1])),
                   published_date |-> Some(date_str(date_obj[1]))]

\* ------------------------------------------------------------------ clean_html: the fields of the record
\* Variant: the thousands separator is not removed.
StripPrice_KeepsCommas(price_text) ==
    SelectSeq(price_text, LAMBDA part : part \notin {"৳", " "})

\* re.sub(r"[৳,\s]", "", price_text)
StripPrice(price_text) == SelectSeq(price_text, LAMBDA part : part \notin {"৳", ",", " "})

\* int(text) for a text without blanks and underscores: an optional sign and
\* at least one digit; None stands for the ValueError.
int(text) ==
    LET signed == Len(text) > 0 /\ text[1] \in {"+", "-"}
        digits == IF signed THEN Tail(text) ELSE text
        value == NumAt(digits, 1, Len(digits))
    IN  IF Len(digits) >= 1 /\ \A k \in DOMAIN digits : digits[k] \in Range(ASCII_DIGITS)
        THEN Some(IF signed /\ text[1] = "-" THEN 0 - value ELSE value)
        ELSE None

\* clean_html: try: price = int(re.sub(...).translate(BANGLA_TO_ENGLISH))
\* except Exception: price = None.  Without the element, price_tag.get_text
\* raises and the price is None as well.
price(amount) ==
    IF amount = None THEN None ELSE int(translate(StripPrice(amount[1])))

AVATAR_PREFIX == <<"https://i.bikroy-st.com/u/">>

\* "https://i.bikroy-st.com/u/" not in img['src']
NotInSrc(src) == ~ \E i \in 1..Len(src) : StartsWithAt(src, i, AVATAR_PREFIX)

\* extract_images(soup): imgs are the src of the img elements that have one,
\* in document order.
extract_images(imgs) == SelectSeq(imgs, NotInSrc)

\* "\n".join(texts), texts non-empty
RECURSIVE join(_)
join(texts) ==
    IF texts = <<>> THEN <<>>
    ELSE IF Len(texts) = 1 THEN texts[1]
    ELSE texts[1] \o <<"\n">> \o join(Tail(texts))

\* paragraphs = desc_div.find_all("p") if desc_div else []
\* description = "\n".join(p.get_text(strip=True) for p in paragraphs if p.get_text(strip=True))
description(desc_div) ==
    LET paragraphs == IF desc_div = None THEN <<>> ELSE desc_div[1]
    IN  join(SelectSeq(paragraphs, LAMBDA text : text # <<>>))

\* feature_tag None, or its first p None: features = None; else the p's text.
features(feature_tag) ==
    IF feature_tag = None THEN None
    ELSE IF feature_tag[1] = None THEN None
    ELSE Some(feature_tag[1][1])

\* title = title_tag.get_text(strip=True) if title_tag else None
title(title_tag) == title_tag

\* clean_html: data = {...}.  Img_urls is json.dumps(img_urls), written here as
\* the list it encodes; Description is a string in every case.
clean_html_data(page_soup, year) ==
    LET published == parse_date_time(page_soup.posted, page_soup.post_ad, year)
    IN  [Title |-> title(page_soup.title),
         Price |-> price(page_soup.amount),
         Published_time |-> published.published_time,
         Published_Date |-> published.published_date,
         Features |-> features(page_soup.features),
         Description |-> Some(description(page_soup.description)),
         Img_urls |-> extract_images(page_soup.imgs)]

\* ------------------------------------------------------------------ clean_html: the pages a record is built from
BnNum(n) ==
    IF n < 10 THEN <<BANGLA_DIGITS[n + 1]>>
    ELSE <<BANGLA_DIGITS[(n \div 10) + 1], BANGLA_DIGITS[(n % 10) + 1]>>

BnPad2(n) == <<BANGLA_DIGITS[(n \div 10) + 1], BANGLA_DIGITS[(n % 10) + 1]>>

\* The abbreviation of month m as the page writes it.
MonthBn(m) == MONTH_MAP[m].bn[1]

\* "<day> <month> <hour>:<minute> <meridiem>" in Bangla script.
Phrase(d, m, h, mi, mer) ==
    BnNum(d) \o <<" ", MonthBn(m), " ">> \o BnNum(h) \o <<":">> \o BnPad2(mi) \o <<" ", mer>>

DAYS == {1, 15, 29, 31}

HOURS == {1, 10, 12}

MINUTES == {5, 30}

MERIDIEMS == {"এএম", "পিএম"}

PRICE_PARTS == {"৳", ",", " ", "১", "২", "0", "5", "-", "x"}

MaxPriceLen == 3

\* The price block of the scenario: "৳ ১,২০০".
PriceScenario == <<"৳", " ", "১", ",", "২", "০", "০">>

\* Image sources: an avatar, two other images, and a redirect that carries the
\* avatar address in its query.
SRCS ==
    { AVATAR_PREFIX \o <<"a.jpg">>,
      <<"https://i.bikroy-st.com/", "b.jpg">>,
      <<"https://cdn.example/", "d.jpg">>,
      <<"https://cdn.example/", "r?u=">> \o AVATAR_PREFIX \o <<"c.jpg">> }

MaxImgs == 3

\* The stripped texts of the paragraphs of the description container.
PARAGRAPHS == {<<>>, <<"p1">>, <<"p2">>}

MaxParagraphs == 2

MaxOpen == 2

\* A page with every element.
FullSoup ==
    [title |-> Some(<<"t">>), amount |-> Some(PriceScenario),
     posted |-> Some(Phrase(15, 1, 10, 30, "এএম")), post_ad |-> FALSE,
     features |-> Some(Some(<<"f">>)), description |-> Some(<<<<"p1">>, <<"p2">>>>),
     imgs |-> <<<<"https://cdn.example/", "d.jpg">>>>]

DateSoups ==
    { [FullSoup EXCEPT !.posted = Some(Phrase(d, m, h, mi, mer))] :
        d \in DAYS, m \in DOMAIN MONTH_MAP, h \in HOURS, mi \in MINUTES, mer \in MERIDIEMS }
    \cup { [FullSoup EXCEPT !.posted = None], [FullSoup EXCEPT !.post_ad = TRUE] }

PriceSoups ==
    { [FullSoup EXCEPT !.amount = Some(text)] : text \in SeqsUpTo(PRICE_PARTS, MaxPriceLen) }
    \cup { [FullSoup EXCEPT !.amount = None] }

ImageSoups == { [FullSoup EXCEPT !.imgs = imgs] : imgs \in SeqsUpTo(SRCS, MaxImgs) }

MarkupSoups ==
    { [FullSoup EXCEPT !.title = t, !.features = f, !.description = d] :
        t \in {None, Some(<<"t">>)},
        f \in {None, Some(None), Some(Some(<<"f">>))},
        d \in {None} \cup {Some(ps) : ps \in SeqsUpTo(PARAGRAPHS, MaxParagraphs)} }

InitRecord ==
    /\ store = {}
    /\ upserts = [u \in URLS |-> NoRow]
    /\ report = NoFile
    /\ report_before = NoFile
    /\ hrefs = <<>>
    /\ new_links = <<>>
    /\ soup \in DateSoups \cup PriceSoups \cup ImageSoups \cup MarkupSoups
    /\ current_year \in YEARS
    /\ record = None
    /\ db_call = NoCall
    /\ connections = 0
    /\ call = NotCalled
    /\ events = <<>>
    /\ RunLocalInit

\* clean_html, from the parsed page to data.
clean_html_builds_data ==
    /\ record = None
    /\ record' = Some(clean_html_data(soup, current_year))
    /\ UNCHANGED <<hrefs, new_links, soup, current_year, report_before, main_end, store,
                   upserts, report, pc, page, page_sem, phone_urls, new_urls, dtask,
                   detail_sem, failed_urls, written, db_call, connections, call, events>>

NextRecord == clean_html_builds_data

SpecRecord == InitRecord /\ [][NextRecord]_vars

\* ------------------------------------------------------------------ connections
\* The operations of dbmanage.py, statement by statement.  None of them has a
\* try or a with block: conn.close() is its last statement but one.
OPERATIONS == {"init_db", "save_to_db", "get_existing_urls"}

ROWS == {[URL |-> u, Data |-> d] : u \in URLS, d \in PAYLOADS}

InitStore ==
    /\ store \in {st \in SUBSET ROWS : \A r, s \in st : r.URL = s.URL => r = s}
    /\ upserts = [u \in URLS |-> NoRow]
    /\ report = NoFile
    /\ report_before = NoFile
    /\ hrefs = <<>>
    /\ new_links = <<>>
    /\ NothingParsed
    /\ RunLocalInit

StoreUnchanged ==
    UNCHANGED <<hrefs, new_links, soup, current_year, record, report_before, main_end,
                upserts, report, pc, page, page_sem, phone_urls, new_urls, dtask,
                detail_sem, failed_urls, written, call, events>>

\* An exception leaves the operation: the statements after the one that raised
\* are not run.
Raised ==
    /\ db_call' = NoCall
    /\ UNCHANGED <<store, connections>>
    /\ StoreUnchanged

\* conn = sqlite3.connect("data/mobiles.db"); c = conn.cursor()
db_connect(op, data) ==
    /\ db_call = NoCall
    /\ connections < MaxOpen
    /\ db_call' = [op |-> op, at |-> "connected", urls |-> <<>>,
                   data |-> IF op = "save_to_db" THEN <<data>> ELSE <<>>]
    /\ connections' = connections + 1
    /\ UNCHANGED store
    /\ StoreUnchanged

\* sqlite3.connect raises (the data directory is missing): no connection.
db_connect_raises ==
    /\ db_call = NoCall
    /\ Raised

\* c.execute(...) of the CREATE TABLE, the INSERT OR IGNORE or the SELECT.
db_execute ==
    /\ db_call.at = "connected"
    /\ db_call' = [db_call EXCEPT !.at = "executed"]
    /\ UNCHANGED <<store, connections>>
    /\ StoreUnchanged

\* c.execute(...) raises (the database is locked, a value cannot be bound).
db_execute_raises ==
    /\ db_call.at = "connected"
    /\ Raised

\* init_db and save_to_db: conn.commit()
db_commit ==
    /\ db_call.op \in {"init_db", "save_to_db"}
    /\ db_call.at = "executed"
    /\ db_call' = [db_call EXCEPT !.at = "committed"]
    /\ store' = IF db_call.op = "save_to_db" THEN save_to_db(store, db_call.data[1])
                ELSE store
    /\ UNCHANGED connections
    /\ StoreUnchanged

\* conn.commit() raises (the database is locked, the disk is full).
db_commit_raises ==
    /\ db_call.op \in {"init_db", "save_to_db"}
    /\ db_call.at = "executed"
    /\ Raised

\* get_existing_urls: urls = {row[0] for row in c.fetchall()}
db_fetchall ==
    /\ db_call.op = "get_existing_urls"
    /\ db_call.at = "executed"
    /\ db_call' = [db_call EXCEPT !.at = "fetched", !.urls = <<get_existing_urls(store)>>]
    /\ UNCHANGED <<store, connections>>
    /\ StoreUnchanged

\* conn.close(), and the operation returns.
db_close ==
    /\ db_call.at \in {"committed", "fetched"}
    /\ db_call' = NoCall
    /\ connections' = connections - 1
    /\ UNCHANGED store
    /\ StoreUnchanged

\* A connection nothing refers to any more is closed when the interpreter
\* frees it: at once, later or not before the process ends.
connection_collected ==
    /\ connections > (IF db_call = NoCall THEN 0 ELSE 1)
    /\ connections' = connections - 1
    /\ UNCHANGED <<store, db_call>>
    /\ StoreUnchanged

NextStore ==
    \/ \E op \in OPERATIONS, data \in ROWS : db_connect(op, data)
    \/ db_connect_raises
    \/ db_execute
    \/ db_execute_raises
    \/ db_commit
    \/ db_commit_raises
    \/ db_fetchall
    \/ db_close
    \/ connection_collected

SpecStore == InitStore /\ [][NextStore]_vars

\* ------------------------------------------------------------------ attempts
\* One detail task, followed through the calls of clean_html it makes: each
\* fetch, how it ended, and each sleep.
InitAttempts ==
    /\ store = {}
    /\ upserts = [u \in URLS |-> NoRow]
    /\ report = NoFile
    /\ report_before = NoFile
    /\ hrefs = <<>>
    /\ new_links = <<>>
    /\ soup = EmptySoup
    /\ current_year = 2026
    /\ record = None
    /\ db_call = NoCall
    /\ connections = 0
    /\ call = [NotCalled EXCEPT !.st = "called"]
    /\ events = <<>>
    /\ RunLocalInit

AttemptsUnchanged ==
    UNCHANGED <<hrefs, new_links, soup, current_year, record, report_before, main_end,
                store, upserts, report, pc, page, page_sem, phone_urls, new_urls, dtask,
                detail_sem, failed_urls, written, db_call, connections>>

\* Variant: the wait may be shorter than RETRY_WAIT_MIN.
randint_FromZero(a, b) == 0..b

\* random.randint(a, b): an integer N with a <= N <= b
randint(a, b) == a..b

\* clean_html: async with session.get(url, timeout=REQUEST_TIMEOUT) as response
session_get ==
    /\ call.st = "called"
    /\ call' = [call EXCEPT !.st = "getting"]
    /\ events' = Append(events, "get")
    /\ AttemptsUnchanged

\* clean_html: if response.status != 200: return None
status_not_200 ==
    /\ call.st = "getting"
    /\ call' = [call EXCEPT !.st = "returned", !.result = "None"]
    /\ events' = Append(events, "non200")
    /\ AttemptsUnchanged

\* clean_html: status 200, the body is read and parsed; return True when
\* save_to_db(data) commits and None when it raises.
status_200 ==
    /\ call.st = "getting"
    /\ \E result \in {"True", "None"} :
          call' = [call EXCEPT !.st = "returned", !.result = result]
    /\ events' = Append(events, "200")
    /\ AttemptsUnchanged

\* Variant: the handler retries with clean_html(session, url), the counter
\* starting at 0 again.
except_handler_Resets(error) ==
    /\ call.st = "getting"
    /\ Len(events) < 4 * (MAX_RETRIES + 1)
    /\ IF ShouldRetry(call.retry_count)
       THEN /\ \E wait_time \in randint(RETRY_WAIT_MIN, RETRY_WAIT_MAX) :
                   call' = [call EXCEPT !.st = "sleeping", !.wait = wait_time,
                                        !.retry_count = 0]
            /\ events' = events \o <<error, "sleep">>
       ELSE /\ call' = [call EXCEPT !.st = "returned", !.result = "None"]
            /\ events' = Append(events, error)
    /\ AttemptsUnchanged

\* clean_html: the body of except asyncio.TimeoutError: and of except Exception:
\* if retry_count < MAX_RETRIES: wait_time = random.randint(...);
\* await asyncio.sleep(wait_time); else: return None
except_handler(error) ==
    /\ call.st = "getting"
    /\ IF ShouldRetry(call.retry_count)
       THEN /\ \E wait_time \in randint(RETRY_WAIT_MIN, RETRY_WAIT_MAX) :
                   call' = [call EXCEPT !.st = "sleeping", !.wait = wait_time]
            /\ events' = events \o <<error, "sleep">>
       ELSE /\ call' = [call EXCEPT !.st = "returned", !.result = "None"]
            /\ events' = Append(events, error)
    /\ AttemptsUnchanged

\* clean_html: except asyncio.TimeoutError:
except_TimeoutError == except_handler("timeout")

\* clean_html: except Exception as e: (the transport failed, or the body of a
\* 200 response could not be read or parsed)
except_Exception == except_handler("exception")

\* clean_html: the sleep is over:
\* return await clean_html(session, url, retry_count + 1)
retry_clean_html ==
    /\ call.st = "sleeping"
    /\ call' = [call EXCEPT !.st = "called", !.retry_count = @ + 1, !.wait = 0]
    /\ UNCHANGED events
    /\ AttemptsUnchanged

NextAttempts ==
    \/ session_get
    \/ status_not_200
    \/ status_200
    \/ except_TimeoutError
    \/ except_Exception
    \/ retry_clean_html

SpecAttempts == InitAttempts /\ [][NextAttempts]_vars

\* The steps of one run that nobody interrupts.
RunOnce ==
    \/ init_db_returns
    \/ init_db_raises
    \/ \E p \in Pages : safe_scrape_acquire(p)
    \/ \E p \in Pages : scrape_page_200(p)
    \/ \E p \in Pages : scrape_page_non200(p)
    \/ \E p \in Pages : scrape_page_timeout(p)
    \/ \E p \in Pages : scrape_page_exception(p)
    \/ scraping_mobile_links_returns
    \/ main_filter_new_urls
    \/ \E i \in DOMAIN dtask : safe_clean_acquire(i)
    \/ \E i \in DOMAIN dtask : clean_html_non200(i)
    \/ \E i \in DOMAIN dtask : clean_html_saves(i)
    \/ \E i \in DOMAIN dtask : clean_html_save_raises(i)
    \/ \E i \in DOMAIN dtask : clean_html_timeout(i)
    \/ \E i \in DOMAIN dtask : clean_html_exception(i)
    \/ \E i \in DOMAIN dtask : clean_html_retry(i)
    \/ scrape_mobile_inf_gathered
    \/ scrape_mobile_inf_reports
    \/ scrape_mobile_inf_report_unwritable
    \/ scrape_mobile_inf_makedirs_raises

\* One uninterrupted run under the event loop's scheduling: a task that can
\* take a step is run (asyncio runs every ready callback), every request ends
\* within REQUEST_TIMEOUT with a response, a timeout or an error, and every
\* asyncio.sleep(wait_time) ends after at most RETRY_WAIT_MAX seconds.
SpecLive == Init /\ [][RunOnce]_vars /\ WF_vars(RunOnce)

\* What an earlier run can have left in FAILED_URLS_FILE when a run starts:
\* nothing, or the failed URLs of that run.
LeftoverReports == {NoFile} \cup {<<u>> : u \in URLS}

InitLeftover ==
    /\ store = {}
    /\ upserts = [u \in URLS |-> NoRow]
    /\ report \in LeftoverReports
    /\ report_before = report
    /\ hrefs = <<>>
    /\ new_links = <<>>
    /\ NothingParsed
    /\ RunLocalInit

\* One uninterrupted run that starts with the report file of an earlier run.
SpecLeftover == InitLeftover /\ [][RunOnce]_vars

\* The runs of one scraper process, one after the other, on one store and one
\* report file.
SpecRuns == Init /\ [][RunNext]_vars

\* ------------------------------------------------------------------ properties
Tasks == DOMAIN dtask

Count(s, x) == Cardinality({k \in DOMAIN s : s[k] = x})

HasRow(u) == \E row \in store : row.URL = u

\* The failed-URL collection holds each URL as often as tasks appended it.
FailedMatchesTasks ==
    pc \in {"FetchingDetails", "Reporting"} =>
        \A u \in URLS :
            Count(failed_urls, u) =
                Cardinality({i \in Tasks : dtask[i].url = u /\ dtask[i].appended = 1})

\* C1: a detail task whose every fetch attempt timed out or raised has made
\* exactly MAX_RETRIES + 1 attempts when it ends, has then put its URL into the
\* failed-URL collection exactly once and has persisted nothing; until it ends
\* it has recorded nothing, and no task ever makes more than MAX_RETRIES + 1
\* attempts.
C1_AlwaysTimingOutTask ==
    /\ FailedMatchesTasks
    /\ \A i \in Tasks :
        /\ dtask[i].attempts <= MAX_RETRIES + 1
        /\ dtask[i].st # "done" => dtask[i].appended = 0
        /\ (dtask[i].st = "done" /\ dtask[i].fails = dtask[i].attempts) =>
              /\ dtask[i].attempts = MAX_RETRIES + 1
              /\ dtask[i].appended = 1
              /\ dtask[i].url \in Range(failed_urls)
              /\ dtask[i].saved = 0
              /\ dtask[i].result = "None"

C1_Witness ==
    \E i \in Tasks :
        /\ dtask[i].st = "done"
        /\ dtask[i].fails = dtask[i].attempts
        /\ failed_urls = <<dtask[i].url>>

\* C2: a detail URL whose fetch returned a non-200 status is not put into the
\* failed-URL collection by its task.
C2_Non200NotRecorded ==
    \A i \in Tasks :
        (dtask[i].st = "done" /\ dtask[i].last = "non200") => dtask[i].appended = 0

\* C3: at most MAX_CONCURRENT_PAGE_REQUESTS index-page fetches are in flight,
\* at most MAX_CONCURRENT_DETAIL_REQUESTS detail tasks hold a slot (fetching or
\* sleeping before a retry), and every holder accounts for exactly one unit of
\* its semaphore: a retry takes no second one.
PagesInFlight == {p \in Pages : page[p].st = "fetching"}

SlotHolders == {i \in Tasks : dtask[i].st \in {"fetching", "sleeping"}}

C3_ConcurrencyCeilings ==
    /\ Cardinality(PagesInFlight) <= MAX_CONCURRENT_PAGE_REQUESTS
    /\ Cardinality(SlotHolders) <= MAX_CONCURRENT_DETAIL_REQUESTS
    /\ page_sem + Cardinality(PagesInFlight) = MAX_CONCURRENT_PAGE_REQUESTS
    /\ detail_sem + Cardinality(SlotHolders) = MAX_CONCURRENT_DETAIL_REQUESTS

C3_Witness ==
    /\ detail_sem = 0
    /\ \E i, j \in Tasks :
        /\ dtask[i].st = "fetching"
        /\ dtask[i].retry_count > 0
        /\ dtask[j].st = "waiting"

\* C4: the store holds at most one row per URL, and the row of a URL is the
\* data of the first upsert committed for it, whichever run committed it: a
\* later upsert of the same URL with other data returns normally (True) and
\* changes nothing, so no row is ever updated or removed.
RowsOf(u) == {row \in store : row.URL = u}

C4_FirstWriteWins ==
    /\ \A u \in URLS :
          IF upserts[u] = NoRow
          THEN RowsOf(u) = {}
          ELSE RowsOf(u) = {[URL |-> u, Data |-> upserts[u]]}
    /\ \A i \in Tasks :
          (dtask[i].st = "done" /\ dtask[i].last = "200") =>
              /\ dtask[i].result = "True"
              /\ dtask[i].appended = 0
              /\ HasRow(dtask[i].url)

C4_Witness ==
    \E i \in Tasks :
        /\ dtask[i].st = "done"
        /\ dtask[i].last = "200"
        /\ dtask[i].saved = 0
        /\ dtask[i].data # upserts[dtask[i].url]
        /\ RowsOf(dtask[i].url) = {[URL |-> dtask[i].url, Data |-> upserts[dtask[i].url]]}

\* C5: filter_new_urls returns the elements of its input whose URL is not a key
\* of the store when it is called, each as often as the input holds it and in
\* the input's order, and changes neither the store nor its input.
IsFilterOf(out, inp, known) ==
    \E f \in [DOMAIN out -> DOMAIN inp] :
        /\ \A i, j \in DOMAIN out : i < j => f[i] < f[j]
        /\ \A i \in DOMAIN out : out[i] = inp[f[i]]
        /\ {f[i] : i \in DOMAIN out} = {k \in DOMAIN inp : inp[k] \notin known}

C5_FilterIsOrderedDifference ==
    [][(pc = "FilteringKnown" /\ pc' \in {"FetchingDetails", "Done"}) =>
          /\ IsFilterOf(new_urls', phone_urls, {row.URL : row \in store})
          /\ Range(new_urls') \cap {row.URL : row \in store} = {}
          /\ store' = store
          /\ phone_urls' = phone_urls]_vars

C5_Witness ==
    /\ pc = "FetchingDetails"
    /\ new_urls # <<>>
    /\ Len(new_urls) < Len(phone_urls)

\* C6: no URL gets more than one detail task in a run.
C6_OneTaskPerURL ==
    \A i, j \in Tasks : dtask[i].url = dtask[j].url => i = j

\* C7: when the detail phase is complete every task has ended with exactly one
\* outcome: it returned True, a row for its URL is in the store and it recorded
\* no failure; or it returned None, recorded its URL once in the failed-URL
\* collection and saved nothing.
C7_ExactlyOneOutcome ==
    pc = "Reporting" =>
        /\ FailedMatchesTasks
        /\ \A i \in Tasks :
            /\ dtask[i].st = "done"
            /\ \/ /\ dtask[i].result = "True"
                  /\ HasRow(dtask[i].url)
                  /\ dtask[i].appended = 0
               \/ /\ dtask[i].result = "None"
                  /\ dtask[i].appended = 1
                  /\ dtask[i].url \in Range(failed_urls)
                  /\ dtask[i].saved = 0

C7_Witness ==
    /\ pc = "Reporting"
    /\ \E i, j \in Tasks :
        /\ dtask[i].result = "True"
        /\ dtask[i].saved = 1
        /\ dtask[j].result = "None"

\* C8: the phases follow one another in the order Init, CollectingLinks,
\* FilteringKnown, FetchingDetails, Reporting, Done: an index page is fetched
\* only in CollectingLinks, which is entered when init_db has returned; the
\* filter runs in FilteringKnown, which is entered when every page task is
\* done; a detail fetch is issued only in FetchingDetails, which is entered
\* from FilteringKnown.
Rank(phase) ==
    CASE phase = "Init" -> 1
      [] phase = "CollectingLinks" -> 2
      [] phase = "FilteringKnown" -> 3
      [] phase = "FetchingDetails" -> 4
      [] phase = "Reporting" -> 5
      [] phase = "Done" -> 6
      [] OTHER -> 7

C8_PhaseOrder ==
    [][/\ Rank(pc) <= Rank(pc')
       /\ (pc' # pc /\ pc' = "CollectingLinks") => pc = "Init"
       /\ (\E p \in Pages : page'[p].fetches > page[p].fetches) =>
              (pc = "CollectingLinks" /\ pc' = pc)
       /\ (pc' # pc /\ pc' = "FilteringKnown") =>
              (pc = "CollectingLinks" /\ \A p \in Pages : page[p].st = "done")
       /\ new_urls' # new_urls => pc = "FilteringKnown"
       /\ (pc' # pc /\ pc' = "FetchingDetails") =>
              (pc = "FilteringKnown" /\ \A i \in DOMAIN dtask' : dtask'[i].attempts = 0)
       /\ (\E i \in DOMAIN dtask \cap DOMAIN dtask' :
               dtask'[i].attempts > dtask[i].attempts) =>
              (pc = "FetchingDetails" /\ pc' = pc)
       /\ (pc' # pc /\ pc' = "Reporting") => (pc = "FetchingDetails" /\ DetailsGathered)
      ]_vars

C8_Witness ==
    /\ pc = "Done"
    /\ written = "written"
    /\ store # {}

\* C9: a run whose link collection found nothing goes on to the filter, and a
\* run whose filter returned nothing goes straight to Done: it creates no
\* detail task, writes neither the store nor the report and records no failure.
C9_EmptyRunSkipsDetails ==
    /\ [](new_urls = <<>> =>
            /\ dtask = <<>>
            /\ failed_urls = <<>>
            /\ written = "no"
            /\ pc \notin {"FetchingDetails", "Reporting"})
    /\ [][/\ (pc = "CollectingLinks" /\ pc' \notin {pc, "Interrupted"}) =>
                pc' = "FilteringKnown"
          /\ (pc = "FilteringKnown" /\ pc' \notin {pc, "Interrupted"} /\ new_urls' = <<>>) =>
                /\ pc' = "Done"
                /\ store' = store
                /\ report' = report]_vars

C9_Witness ==
    /\ pc = "Done"
    /\ phone_urls # <<>>
    /\ new_urls = <<>>

\* C10: after a run that completed with no failed URL no failure report
\* exists.
C10_NoFailuresNoReport ==
    (pc = "Done" /\ failed_urls = <<>>) => report = NoFile

\* C11: after a run that recorded at least one failed URL and wrote the report,
\* the report holds exactly the URLs of this run's failed_urls, one per line and
\* in their order, and nothing of the report the run found when it started.
C11_ReportIsThisRunsFailures ==
    (pc = "Done" /\ written = "written") =>
        /\ failed_urls # <<>>
        /\ report = failed_urls

C11_Witness ==
    /\ pc = "Done"
    /\ written = "written"
    /\ report_before # NoFile
    /\ Range(report_before) \cap Range(report) = {}

NothingFetched ==
    /\ \A p \in Pages : page[p] = IdlePage
    /\ page_sem = MAX_CONCURRENT_PAGE_REQUESTS
    /\ dtask = <<>>
    /\ phone_urls = <<>>
    /\ new_urls = <<>>
    /\ failed_urls = <<>>

C13_InitFailureIsFatal ==
    /\ []((main_end = Fatal /\ written # "nodir") => (pc = "Failed" /\ NothingFetched))
    /\ [][/\ (pc = "Init" /\ pc' = "Failed") => (main_end' = Fatal /\ NothingFetched)
          /\ (pc = "Failed" /\ pc' = "Failed") =>
                (page' = page /\ dtask' = dtask /\ main_end' = main_end)]_vars

C13_Witness ==
    /\ pc = "Failed"
    /\ main_end = Fatal
    /\ written = "no"
    /\ store # {}

\* C14: when save_to_db raises for one URL, the exception stays in that URL's
\* task: the task returns None and its link is appended to failed_urls once,
\* the run stays in its phase, nothing is committed, the other tasks are left
\* as they are, and the run goes on to Reporting once all of them are done.
C14_SaveFailureIsContained ==
    /\ [](\A i \in Tasks :
            dtask[i].last = "save_raised" =>
                /\ dtask[i].st = "done"
                /\ dtask[i].result = "None"
                /\ dtask[i].appended = 1
                /\ Count(failed_urls, dtask[i].url) >= 1
                /\ pc \in {"FetchingDetails", "Reporting"})
    /\ [][\A i \in DOMAIN dtask \cap DOMAIN dtask' :
            (dtask[i].last # "save_raised" /\ dtask'[i].last = "save_raised") =>
                /\ pc' = pc
                /\ main_end' = main_end
                /\ store' = store
                /\ \A j \in DOMAIN dtask \ {i} : dtask'[j] = dtask[j]]_vars

C14_Witness ==
    /\ pc = "Reporting"
    /\ \E i, j \in Tasks :
            /\ i < j
            /\ dtask[i].last = "save_raised"
            /\ dtask[j].result = "True"
            /\ HasRow(dtask[j].url)

\* C15: a run that is not interrupted, whose fetches and backoff sleeps all
\* end, eventually reaches Done or Failed: no detail task retries forever and
\* no task waits forever for a slot of its semaphore.
C15_RunTerminates == <>(pc \in {"Done", "Failed"})

C15_Witness ==
    /\ pc = "Reporting"
    /\ Len(dtask) = 2
    /\ dtask[1].fails = MAX_RETRIES + 1
    /\ dtask[2].fails = MAX_RETRIES + 1

\* C16: a non-200 status is never retried, on either fetch type: the page task
\* or detail task that got it is done with that attempt, also when the attempt
\* was a retry after earlier failed fetches, and no further fetch is made for
\* it in the run.
C16_Non200NeverRetried ==
    /\ [](\A i \in Tasks :
            dtask[i].last = "non200" =>
                /\ dtask[i].st = "done"
                /\ dtask[i].result = "None"
                /\ dtask[i].attempts = dtask[i].fails + 1)
    /\ [](\A p \in Pages :
            page[p].outcome = "non200" =>
                /\ page[p].st = "done"
                /\ page[p].fetches = 1
                /\ page[p].result = <<>>)
    /\ [][/\ \A i \in DOMAIN dtask \cap DOMAIN dtask' :
                dtask[i].last = "non200" => dtask'[i].attempts = dtask[i].attempts
          /\ \A p \in Pages :
                page[p].outcome = "non200" => page'[p].fetches <= page[p].fetches]_vars

C16_Witness ==
    \E i \in Tasks :
        /\ dtask[i].last = "non200"
        /\ dtask[i].fails >= 1
        /\ dtask[i].st = "done"

\* C17: every page number of 1..MAX_PAGES is fetched exactly once in a run; a
\* page that answers non-200, times out or raises contributes no links and is
\* not fetched again, the collection goes on, and the links handed on are the
\* links of the pages that answered 200, in page order.
RECURSIVE LinksOfGoodPages(_)
LinksOfGoodPages(n) ==
    IF n = 0 THEN <<>>
    ELSE LinksOfGoodPages(n - 1) \o
         (IF page[n].outcome = "200" THEN page[n].result ELSE <<>>)

C17_EachPageOnce ==
    /\ [](\A p \in Pages :
            /\ page[p].fetches <= 1
            /\ page[p].st \in {"fetching", "done"} => page[p].fetches = 1
            /\ page[p].outcome \in {"non200", "timeout", "exception"} =>
                    (page[p].st = "done" /\ page[p].result = <<>>))
    /\ [][/\ \A p \in Pages :
                (page[p].st = "fetching" /\ page'[p].st = "done") =>
                    /\ pc' = pc
                    /\ \A q \in Pages \ {p} : page'[q] = page[q]
          /\ (pc = "CollectingLinks" /\ pc' = "FilteringKnown") =>
                /\ \A p \in Pages : page[p].fetches = 1
                /\ phone_urls' = LinksOfGoodPages(MAX_PAGES)]_vars

C17_Witness ==
    /\ pc = "CollectingLinks"
    /\ PagesGathered
    /\ page[1].outcome = "exception"
    /\ page[MAX_PAGES].outcome = "200"
    /\ page[MAX_PAGES].result # <<>>

\* C18: every link the collector returns for a page is an absolute URL: a
\* href that is not absolute comes back resolved against the base origin.
C18_LinksAreAbsolute ==
    \A k \in DOMAIN new_links : IsAbsolute(new_links[k])

\* C19: with another run on the same store, once that run has committed the
\* upsert of a URL, a filter_new_urls call of this run that starts afterwards
\* leaves the URL out, and this run creates no detail task for it: the detail
\* tasks are exactly the elements of the filter result.
C19_CommittedUrlIsFiltered ==
    /\ [](\A i \in Tasks : i \in DOMAIN new_urls /\ dtask[i].url = new_urls[i])
    /\ [][(pc = "FilteringKnown" /\ pc' \in {"FetchingDetails", "Done"}) =>
            \A u \in URLS :
                upserts[u] # NoRow =>
                    /\ u \notin Range(new_urls')
                    /\ \A i \in DOMAIN dtask' : dtask'[i].url # u]_vars

C19_Witness ==
    /\ pc = "FetchingDetails"
    /\ \E u \in URLS :
            /\ upserts[u] # NoRow
            /\ u \in Range(phone_urls)
            /\ u \notin Range(new_urls)
            /\ \A i \in Tasks : dtask[i].url # u /\ dtask[i].attempts >= 1

\* C20: a KeyboardInterrupt in any phase of a run ends the run without an error
\* exit: main logs a warning and returns without raising, the interrupt itself
\* changes neither the store nor the report, and every row committed before it
\* stays in the store as it was.
C20_InterruptIsGraceful ==
    /\ [](pc = "Interrupted" => (main_end.log = "warning" /\ ~main_end.raised))
    /\ [][/\ (pc # "Interrupted" /\ pc' = "Interrupted") =>
                /\ pc \in {"Init", "CollectingLinks", "FilteringKnown", "FetchingDetails",
                            "Reporting"}
                /\ store' = store
                /\ report' = report
          /\ store \subseteq store']_vars

C20_Witness ==
    /\ pc = "Interrupted"
    /\ main_end = Interrupted
    /\ new_urls # <<>>
    /\ \E row \in store : row.URL \in Range(new_urls)

\* C21: for each of the 12 month abbreviations of the month table, a
\* well-formed Bangla phrase "<day> <month> <hour>:<minute> <meridiem>" whose
\* day exists in that month resolves to a present time and date: the date has
\* the reference year, the month the abbreviation denotes and the given day,
\* the time is the 24-hour HH:MM of the given hour, minute and meridiem.
Hour24(h, mer) ==
    IF mer = "এএম" THEN (IF h = 12 THEN 0 ELSE h) ELSE (IF h = 12 THEN 12 ELSE h + 12)

Resolves(d, m, h, mi, mer) ==
    /\ record[1].Published_Date = Some(date_str([year |-> current_year, month |-> m, day |-> d]))
    /\ record[1].Published_time = Some(time_str([hour |-> Hour24(h, mer), minute |-> mi]))

C21_EveryMonthResolves ==
    \A d \in DAYS, m \in DOMAIN MONTH_MAP, h \in HOURS, mi \in MINUTES, mer \in MERIDIEMS :
        ( /\ record # None
          /\ ~soup.post_ad
          /\ soup.posted = Some(Phrase(d, m, h, mi, mer))
          /\ d <= DaysIn(m, current_year) ) => Resolves(d, m, h, mi, mer)

\* C22: every Price that record construction produces is absent or a
\* non-negative integer, whatever the text of the price element is.
C22_PriceNonNegative ==
    record # None => (record[1].Price = None \/ record[1].Price[1] >= 0)

\* C23: a price text made only of the currency glyph, thousands separators,
\* blanks and Bangla or ASCII digits, with at least one digit, gives the
\* integer its digits denote, read in order.
DigitValue(part) ==
    CHOOSE v \in 0..9 : part = BANGLA_DIGITS[v + 1] \/ part = ASCII_DIGITS[v + 1]

IsDigit(part) == part \in Range(BANGLA_DIGITS) \cup Range(ASCII_DIGITS)

RECURSIVE Denoted(_)
Denoted(digits) ==
    IF digits = <<>> THEN 0
    ELSE 10 * Denoted(SubSeq(digits, 1, Len(digits) - 1)) + DigitValue(digits[Len(digits)])

C23_PriceIsItsDigits ==
    ( /\ record # None
      /\ soup.amount # None
      /\ \A k \in DOMAIN soup.amount[1] :
            IsDigit(soup.amount[1][k]) \/ soup.amount[1][k] \in {"৳", ",", " "}
      /\ \E k \in DOMAIN soup.amount[1] : IsDigit(soup.amount[1][k]) )
    => record[1].Price = Some(Denoted(SelectSeq(soup.amount[1], IsDigit)))

C23_Witness ==
    /\ record # None
    /\ soup.amount = Some(PriceScenario)
    /\ record[1].Price = Some(1200)

\* C24: the Img_urls of a record are the image sources that do not start with
\* the avatar prefix, in document order: a source is left out exactly when it
\* starts with the prefix.
C24_ImagesWithoutAvatarPrefix ==
    record # None =>
        record[1].Img_urls =
            SelectSeq(soup.imgs, LAMBDA src : ~StartsWithAt(src, 1, AVATAR_PREFIX))

\* C25: a page without description container, or whose container has only
\* empty paragraphs, gives a record whose Description is absent; a page
\* without features container gives Features absent and every other field as
\* the same page with the container has it.
C25_MissingMarkupIsAbsent ==
    record # None =>
        /\ ( \/ soup.description = None
             \/ \A k \in DOMAIN soup.description[1] : soup.description[1][k] = <<>> )
           => record[1].Description = None
        /\ soup.features = None =>
              /\ record[1].Features = None
              /\ record[1] =
                    [clean_html_data([soup EXCEPT !.features = Some(Some(<<"f">>))],
                                     current_year) EXCEPT !.Features = None]

FAILURES == {"timeout", "exception"}

\* How many of the events are in the set.
CountIn(evs, set) == Cardinality({k \in DOMAIN evs : evs[k] \in set})

\* C26: between a failed attempt and the next attempt of the same detail task
\* there is exactly one backoff sleep, of a whole number of seconds between
\* RETRY_WAIT_MIN and RETRY_WAIT_MAX; no sleep comes before the first attempt
\* and none after the last failed attempt.
C26_OneSleepBetweenAttempts ==
    /\ events # <<>> => events[1] = "get"
    /\ \A k \in DOMAIN events :
          /\ (events[k] = "get" /\ k > 1) =>
                (k > 3 /\ events[k - 1] = "sleep" /\ events[k - 2] \in FAILURES
                       /\ events[k - 3] = "get")
          /\ events[k] = "sleep" => (k > 1 /\ events[k - 1] \in FAILURES)
          /\ (events[k] \in FAILURES /\ k < Len(events)) => events[k + 1] = "sleep"
    /\ call.st = "sleeping" =>
          /\ events[Len(events)] = "sleep"
          /\ call.wait \in Int
          /\ RETRY_WAIT_MIN <= call.wait /\ call.wait <= RETRY_WAIT_MAX
    /\ call.st # "sleeping" => call.wait = 0
    /\ call.st = "returned" => events[Len(events)] \in FAILURES \cup {"200", "non200"}

C26_Witness ==
    /\ call.st = "returned"
    /\ events[Len(events)] = "timeout"
    /\ CountIn(events, {"sleep"}) = MAX_RETRIES
    /\ CountIn(events, {"get"}) = MAX_RETRIES + 1

\* C27: the failed-URL collection is read, to decide on the report and to
\* write it, only after every detail task of the run has finished; a task
\* appends at most its own URL, at most once, and no task removes or changes
\* an entry that is already there (the collection is a local of
\* scrape_mobile_inf and goes away when an interrupt unwinds the run).
C27_FailedUrlsReadAfterJoin ==
    /\ [](pc = "Reporting" => (Len(dtask) = Len(new_urls) /\ DetailsGathered))
    /\ [](\A i \in DOMAIN dtask : dtask[i].appended <= 1)
    /\ [][/\ (report' # report \/ written' # written) => pc = "Reporting"
          /\ (failed_urls' # failed_urls /\ pc' # "Interrupted") =>
                \E i \in DOMAIN dtask :
                    /\ dtask[i].st = "fetching"
                    /\ dtask'[i].st = "done"
                    /\ dtask'[i].appended = 1
                    /\ \A j \in DOMAIN dtask \ {i} : dtask'[j] = dtask[j]
                    /\ failed_urls' = Append(failed_urls, dtask[i].url)]_vars

C27_Witness ==
    /\ pc = "Reporting"
    /\ Len(failed_urls) >= 2
    /\ \A i \in DOMAIN dtask : dtask[i].appended = 1 /\ failed_urls[i] = dtask[i].url

\* C28: every operation of dbmanage.py closes the connection it opened before
\* control leaves it, whether it returns or raises, so that no connection is
\* open while no operation is running.
C28_ConnectionsClosedOnEveryExit ==
    db_call = NoCall => connections = 0

\* C29: a record is written to the store for a URL only after a fetch of that
\* URL's task returned status 200 and its body was read; a task whose attempts
\* all ended in a non-200 response, a timeout or an error writes no row, and a
\* task writes at most one record.
C29_RowOnlyAfter200 ==
    /\ [](\A i \in DOMAIN dtask :
            /\ dtask[i].saved <= 1
            /\ dtask[i].last # "200" => (dtask[i].saved = 0 /\ dtask[i].data = NoRow)
            /\ dtask[i].saved = 1 =>
                  [URL |-> dtask[i].url, Data |-> dtask[i].data] \in store)
    /\ [][/\ \A i \in DOMAIN dtask \cap DOMAIN dtask' :
                (dtask'[i].saved # dtask[i].saved \/ dtask'[i].data # dtask[i].data) =>
                    /\ dtask[i].st = "fetching"
                    /\ dtask[i].data = NoRow
                    /\ dtask'[i].st = "done"
                    /\ dtask'[i].last = "200"
          /\ (store' # store /\ dtask' # dtask) =>
                \E i \in DOMAIN dtask :
                    /\ dtask[i].st = "fetching"
                    /\ dtask'[i].last = "200"
                    /\ dtask'[i].saved = 1
                    /\ store' = store \cup {[URL |-> dtask[i].url,
                                             Data |-> dtask'[i].data]}]_vars

C29_Witness ==
    \E i \in DOMAIN dtask :
        /\ dtask[i].last = "200"
        /\ dtask[i].fails >= 1
        /\ dtask[i].saved = 1
        /\ \E j \in DOMAIN dtask : dtask[j].last = "non200" /\ dtask[j].saved = 0

\* C30: timeouts and other exceptions share one attempt counter per detail
\* task: a task makes at most MAX_RETRIES + 1 fetch attempts whatever the
\* outcomes are, the counter grows by exactly one with each retry and is never
\* reset, and no attempt follows the first one that returned an HTTP response.
C30_OneAttemptCounter ==
    /\ [](/\ CountIn(events, {"get"}) <= MAX_RETRIES + 1
          /\ call.retry_count <= MAX_RETRIES
          /\ call.retry_count + (IF call.st = "called" THEN 0 ELSE 1) =
                CountIn(events, {"get"})
          /\ CountIn(events, FAILURES) \in
                CASE call.st \in {"called", "getting"} -> {call.retry_count}
                  [] call.st = "sleeping" -> {call.retry_count + 1}
                  [] OTHER -> {call.retry_count, call.retry_count + 1}
          /\ \A k \in DOMAIN events :
                events[k] \in {"200", "non200"} =>
                    (k = Len(events) /\ call.st = "returned"))
    /\ [][/\ call'.retry_count # call.retry_count =>
                (call.st = "sleeping" /\ call'.retry_count = call.retry_count + 1)
          /\ (call.st = "sleeping" /\ call'.st # "sleeping") =>
                (call'.st = "called" /\ call'.retry_count = call.retry_count + 1)
          /\ call.st = "returned" => events' = events]_vars

C30_Witness ==
    /\ call.st = "returned"
    /\ events[Len(events)] = "non200"
    /\ CountIn(events, {"get"}) = MAX_RETRIES + 1
    /\ CountIn(events, {"timeout"}) >= 1
    /\ CountIn(events, {"exception"}) >= 1
====
